---- MODULE Spec2Model ----
(***************************************************************************)
(* Model of the dialogue-driven slot-filling engine of                     *)
(* src/chatbot-graph/chatbot-graph.py: the session loop, the LangGraph     *)
(* nodes (run_node for every section, classify_node) and the router.       *)
(* The language model is an oracle: every call returns one of a small set  *)
(* of texts / structured objects, or raises.                               *)
(***************************************************************************)
EXTENDS Integers, Sequences, FiniteSets, TLC

\* ------------------------------------------------------------------ bounds
MaxTurns == 3
MaxReportTurns == 1  \* further utterances after a classification report
MaxQuitTurns == 1    \* turns of a session in which the word quit is typed
MaxMarked == 1       \* replies of the language model that carry a sentinel

\* ------------------------------------------------------------ fact schema
None == "None"
END == "__end__"

TriageNode ==
  <<"device_name", "is_invasive", "is_active", "is_software", "duration">>

NonInvasiveNode ==
  <<"channels_fluids_for_infusion", "is_blood_bag", "modifies_fluids_for_body",
    "is_simple_processing", "contacts_injured_skin", "wound_use_type">>

InvasiveNode ==
  <<"is_surgically_invasive", "is_implantable", "contacts_cns_or_heart",
    "administers_medicines", "is_reusable_instrument", "has_biological_effect",
    "undergoes_chemical_change", "placed_in_teeth", "orifice_location">>

ActiveNode ==
  <<"emits_radiation", "administers_energy", "monitors_vital_functions",
    "controls_other_device", "energy_is_hazardous",
    "immediate_danger_monitoring", "controls_active_implantable",
    "administers_removes_substances">>

SoftwareNode ==
  <<"influences_treatment_decisions", "software_risk_level">>

SpecialRulesNode ==
  <<"incorporates_medicinal_product", "is_contraceptive_or_std_prevention",
    "is_disinfecting_device", "disinfects_invasive_devices",
    "records_xray_images", "contains_human_or_animal_tissue",
    "tissue_contacts_intact_skin_only", "contains_nanomaterial",
    "nanomaterial_exposure", "is_inhalation_drug_delivery",
    "inhalation_essential_impact", "is_substance_absorbed_in_body",
    "substance_systemic_absorption", "is_closed_loop_therapeutic">>

Range(s) == {s[i] : i \in 1..Len(s)}

ToolClasses ==
  {TriageNode, NonInvasiveNode, InvasiveNode, ActiveNode, SoftwareNode,
   SpecialRulesNode}

\* State: the fact fields are the union of the sections' fields
StateFields == UNION {Range(t) : t \in ToolClasses}

Duration == <<"TRANSIENT", "SHORT_TERM", "LONG_TERM">>
WoundUseType == <<"BARRIER", "DERMIS_BREACH", "MICRO_ENV", "OTHER">>
OrificeLocation == <<"ORAL_PHARYNX", "EAR_CANAL", "NASAL", "OTHER">>
SoftwareRiskLevel == <<"NONE", "MODERATE", "SERIOUS", "DEATH_OR_IRREVERSIBLE">>
NanomaterialExposure == <<"HIGH", "MEDIUM", "LOW", "NEGLIGIBLE">>
Bool == <<"true", "false">>
Str == <<"scalpel", "pump">>

\* the declared type of a field, as the sequence of its values
FieldType(f) ==
  CASE f = "device_name" -> Str
    [] f = "duration" -> Duration
    [] f = "wound_use_type" -> WoundUseType
    [] f = "orifice_location" -> OrificeLocation
    [] f = "software_risk_level" -> SoftwareRiskLevel
    [] f = "nanomaterial_exposure" -> NanomaterialExposure
    [] OTHER -> Bool

\* ---------------------------------------------------------------- messages
HumanMessage(c) == [type |-> "human", content |-> c]
AIMessage(c) == [type |-> "ai", content |-> c]

\* texts the language model may return: with or without the two sentinels
LLMTexts == {"text", "text_check", "text_clipboard"}
TriageStatus == "check Triage complete. Moving to specifics..."
NodeStatus(node_name) == "check " \o node_name \o " data collected."
Report == "clipboard CLASSIFICATION REPORT"

NodeNames ==
  {"triage", "non_invasive", "invasive", "active", "software", "special_rules"}

\* the texts that contain the status marker, and the report marker
CheckTexts ==
  {"text_check", TriageStatus} \cup {NodeStatus(n) : n \in NodeNames}
ClipboardTexts == {"text_clipboard", Report}

HasCheck(c) == c \in CheckTexts
HasClipboard(c) == c \in ClipboardTexts

\* ------------------------------------------------------------------- state
VARIABLES
  current_state,   \* the session loop's State object (__main__)
  state,           \* the graph's State during graph.invoke
  pc,              \* "input": waiting for the user; "node": a node is to
                   \* run; "router": the conditional edge is to be evaluated;
                   \* "exited": the session loop has ended
  line,            \* the last line read by input(), as typed
  node,            \* the node to run / the node that has just run
  turns,           \* user utterances so far
  log,             \* the node invocations of the current turn
  prev_asked,      \* the question the previous turn ended with, if any
  before_turn,     \* current_state as it was before the user's last message
  checklist,       \* tool_calling.CHECK_LIST: the answer of every item
  payload,         \* the arguments of the last record_answers call
  tool_result,     \* what the last record_answers call returned
  tool_calls,      \* record_answers calls so far
  gather_pc,       \* gather_info: "hello", "loop", "summary", "returned",
                   \* "raised"
  gather_line,     \* the last line read by gather_info's input(), as typed
  scrape,          \* scrape_all_devices: its arguments, its locals and its
                   \* position ("fetch", "save", "next", "sleep", "done",
                   \* "raised", "interrupted")
  output_file,     \* the devices in the scraper's output file, or NoFile
  server_pages,    \* the pages the server has
  scrape_log,      \* the devices loaded at the start, the pages requested
                   \* and fetched, and where the user interrupted
  filter_args,     \* filter_devices: the input file's devices, risk_class,
                   \* limit, fetch_details
  filtered_devices,\* filter_devices: the filtered list, and what it returns
  detailed_devices,\* filter_devices: the list the detail loop builds
  filter_pc        \* filter_devices: "filter", "details", "returned"

bot_vars ==
  <<current_state, state, pc, line, node, turns, log, prev_asked, before_turn>>
cl_vars ==
  <<checklist, payload, tool_result, tool_calls, gather_pc, gather_line>>
scrape_vars == <<scrape, output_file, server_pages, scrape_log>>
filter_vars ==
  <<filter_args, filtered_devices, detailed_devices, filter_pc>>
vars == <<bot_vars, cl_vars, scrape_vars, filter_vars>>

NoFacts == [f \in StateFields |-> None]

\* State(): empty history, no facts, nothing pending, triage not complete
InitialState ==
  [messages |-> <<>>, facts |-> NoFacts, pending_nodes |-> <<>>,
   triage_complete |-> FALSE]

\* ------------------------------------------------------------ the oracle
\* the value the Extractor reports for field f under answer profile b
Pick(f, b) == IF b = "true" THEN FieldType(f)[1] ELSE FieldType(f)[2]

Unset(tool_class, facts) ==
  {i \in 1..Len(tool_class) : facts[tool_class[i]] = None}

\* the i-th unset field of the section is among the first k unset fields
AmongFirstUnset(tool_class, facts, i, k) ==
  /\ i \in Unset(tool_class, facts)
  /\ Cardinality({j \in Unset(tool_class, facts) : j <= i}) <= k

\* Structured objects the Extractor may return, after
\* model_dump(exclude_unset=True, exclude_none=True): a field mapped to None
\* is absent from the dump.  The reply gives values for none of the unset
\* fields of the section, for the next one (the one asked about), for all but
\* the last, or for all of them; or it corrects the section's first field.
FillCounts(tool_class, facts) ==
  {k \in {0, 1, Cardinality(Unset(tool_class, facts)) - 1,
          Cardinality(Unset(tool_class, facts))} : k >= 0}

ExtractorOutputs(tool_class, facts) ==
  {[f \in StateFields |->
      IF \E i \in 1..Len(tool_class) :
            tool_class[i] = f /\ AmongFirstUnset(tool_class, facts, i, k)
      THEN Pick(f, b) ELSE None] :
        k \in FillCounts(tool_class, facts), b \in {"true", "false"}}
  \cup
  {[f \in StateFields |-> IF f = g THEN Pick(g, b) ELSE None] :
        g \in {h \in {tool_class[1]} : facts[h] # None},
        b \in {"true", "false"}}

\* a value that no enumeration declares
Invalid == "INVALID"

\* the fields whose declared type is an enumeration
EnumFields == {f \in StateFields : FieldType(f) \notin {Bool, Str}}

\* Objects the Extractor may return that give one enumerated field of the
\* section a value outside its enumeration, and every other unset field of
\* the section a valid value.
InvalidOutputs(tool_class, facts) ==
  {[f \in StateFields |->
      IF f = g THEN Invalid
      ELSE IF f \in Range(tool_class) /\ facts[f] = None THEN Pick(f, "true")
      ELSE None] : g \in Range(tool_class) \cap EnumFields}

\* the structured-output parser builds tool_class(**reply): every value
\* given must belong to the declared type of its field
validates(reply) ==
  \A f \in StateFields :
    reply[f] # None => reply[f] \in Range(FieldType(f))

\* the replies of the language model that carry a sentinel, in a history
Marked(messages) ==
  Cardinality({i \in 1..Len(messages) :
                 messages[i].content \in {"text_check", "text_clipboard"}})

\* the oracle's replies, within the bound on sentinel-carrying replies
PlainOnly(messages, texts) ==
  IF Marked(messages) < MaxMarked THEN texts
  ELSE texts \ {"text_check", "text_clipboard"}

\* what the three kinds of model call can return; "raise": the call fails
IntentResults == {"ANSWER", "CLARIFICATION", "raise"}
TextResults == LLMTexts \cup {"raise"}
QuestionResults == LLMTexts \cup {"\"text\"", "raise"}

\* ------------------------------------------------------------- run_node
\* the update dictionary a node returns: keys holds the non-fact keys that
\* are present; a fact mapped to None is absent
NoUpdates ==
  [keys |-> {}, messages |-> <<>>, facts |-> NoFacts, pending_nodes |-> <<>>,
   triage_complete |-> FALSE]

\* time.sleep(2.5), as an event of an invocation
Sleep == "sleep"
IsCall(event) == event # Sleep

\* what one invocation did: the dictionary it returned (or that it raised),
\* its delays and model calls in order (events), the model calls alone
\* (calls), the field it asked about, its branch, and the object the
\* Extractor replied with, if it replied
Result(raised, updates, events, asked, branch) ==
  [raised |-> raised, updates |-> updates, events |-> events,
   calls |-> SelectSeq(events, IsCall), asked |-> asked, branch |-> branch,
   reply |-> NoFacts]

\* a pop that puts the completed section back at the end of the queue
pop_pending_requeue(pending_nodes) ==
  IF pending_nodes # <<>> THEN Tail(pending_nodes) \o <<Head(pending_nodes)>>
  ELSE <<>>

\* updates["pending_nodes"] = list(state.pending_nodes[1:]) if ... else []
pop_pending(pending_nodes) ==
  IF pending_nodes # <<>> THEN Tail(pending_nodes) ELSE <<>>

\* the queue built from the state of before the extraction
merged_without_updates(facts, data) == facts

\* merged = state.model_copy(update=updates), the facts the queue is built from
merged(facts, data) ==
  [f \in StateFields |-> IF data[f] # None THEN data[f] ELSE facts[f]]

Last(seq) == seq[Len(seq)]

\* input detection that looks for a user message anywhere in the history
should_process_input_any_human(messages) ==
  \E i \in 1..Len(messages) : messages[i].type = "human"

should_process_input(messages) ==
  Len(messages) > 0 /\ Last(messages).type = "human"

user_input(messages) ==
  IF should_process_input(messages) THEN Last(messages).content ELSE ""

last_ai_msg(messages) ==
  IF /\ should_process_input(messages)
     /\ Len(messages) > 1
     /\ messages[Len(messages) - 1].type = "ai"
  THEN messages[Len(messages) - 1].content
  ELSE "None"

\* state.model_copy(update=updates), on the facts
\* a copy that replaces the facts by the update, unset fields included
model_copy_replace(facts, data) == data

model_copy(facts, data) ==
  [f \in StateFields |-> IF data[f] # None THEN data[f] ELSE facts[f]]

Min(S) == CHOOSE x \in S : \A y \in S : x <= y

\* the scan for the first field of the section that is None
\* a scan that does not look at the last field of the schema
find_missing_skips_last(tool_class, facts) ==
  IF Unset(tool_class, facts) \ {Len(tool_class)} = {} THEN None
  ELSE tool_class[Min(Unset(tool_class, facts) \ {Len(tool_class)})]

find_missing(tool_class, facts) ==
  IF Unset(tool_class, facts) = {} THEN None
  ELSE tool_class[Min(Unset(tool_class, facts))]

\* q.strip().replace('"', '')
q_clean(q) == IF q = "\"text\"" THEN "text" ELSE q

\* the queue of sections computed when triage completes
calculate_pending_nodes(facts) ==
  (IF facts["is_invasive"] = "true" THEN <<"invasive">>
   ELSE IF facts["is_invasive"] = "false" THEN <<"non_invasive">> ELSE <<>>)
  \o (IF facts["is_active"] = "true" THEN <<"active">> ELSE <<>>)
  \o (IF facts["is_software"] = "true" THEN <<"software">> ELSE <<>>)
  \o <<"special_rules">>

\* 5. FIND MISSING & ACT, given the extracted data
find_missing_and_act(s, tool_class, node_name, is_triage, calls, data) ==
  LET temp_state == model_copy(s.facts, data)
      missing == find_missing(tool_class, temp_state)
  IN
  IF missing # None THEN
    {IF q = "raise"
     THEN Result(TRUE, NoUpdates, calls \o <<Sleep, "question">>, missing, "raise")
     ELSE Result(FALSE,
                 [NoUpdates EXCEPT !.facts = data, !.keys = {"messages"},
                                   !.messages = <<AIMessage(q_clean(q))>>],
                 calls \o <<Sleep, "question">>, missing, "ask")
       : q \in PlainOnly(s.messages, QuestionResults)}
  ELSE IF is_triage THEN
    {Result(FALSE,
            [keys |-> {"messages", "pending_nodes", "triage_complete"},
             facts |-> data,
             pending_nodes |-> calculate_pending_nodes(merged(s.facts, data)),
             triage_complete |-> TRUE,
             messages |-> <<AIMessage(TriageStatus)>>],
            calls, None, "triage_done")}
  ELSE
    {Result(FALSE,
            [keys |-> {"messages", "pending_nodes"},
             facts |-> data,
             pending_nodes |-> pop_pending(s.pending_nodes),
             triage_complete |-> FALSE,
             messages |-> <<AIMessage(NodeStatus(node_name))>>],
            calls, None, "node_done")}

\* 4. EXTRACT DATA: the reply is validated against the tool class as a
\* whole; a failed call or a failed validation leaves the updates empty
\* an extraction that fills in a default for the field asked about when the
\* Extractor fails
extract_data_default_on_failure(s, tool_class, node_name, is_triage, calls) ==
  IF should_process_input(s.messages) THEN
    UNION {find_missing_and_act(s, tool_class, node_name, is_triage,
                                calls \o <<Sleep, "extract">>, reply)
             : reply \in ExtractorOutputs(tool_class, s.facts)}
    \cup find_missing_and_act(s, tool_class, node_name, is_triage,
           calls \o <<Sleep, "extract_failed">>,
           [f \in StateFields |->
              IF f = find_missing(tool_class, s.facts) THEN Pick(f, "false")
              ELSE None])
  ELSE find_missing_and_act(s, tool_class, node_name, is_triage, calls, NoFacts)

\* an extraction that is attempted a second time when the Extractor fails
extract_data_retry(s, tool_class, node_name, is_triage, calls) ==
  IF should_process_input(s.messages) THEN
    UNION {find_missing_and_act(s, tool_class, node_name, is_triage,
                                calls \o <<Sleep, "extract">>, reply)
             : reply \in ExtractorOutputs(tool_class, s.facts)}
    \cup
    UNION {find_missing_and_act(s, tool_class, node_name, is_triage,
             calls \o <<Sleep, "extract_failed", Sleep, "extract">>, reply)
             : reply \in ExtractorOutputs(tool_class, s.facts)}
  ELSE find_missing_and_act(s, tool_class, node_name, is_triage, calls, NoFacts)

extract_data(s, tool_class, node_name, is_triage, calls) ==
  IF should_process_input(s.messages) THEN
    UNION {{[r EXCEPT !.reply = reply] :
              r \in IF validates(reply)
                    THEN find_missing_and_act(s, tool_class, node_name,
                           is_triage, calls \o <<Sleep, "extract">>, reply)
                    ELSE find_missing_and_act(s, tool_class, node_name,
                           is_triage, calls \o <<Sleep, "extract_failed">>,
                           NoFacts)}
             : reply \in ExtractorOutputs(tool_class, s.facts)
                          \cup InvalidOutputs(tool_class, s.facts)}
    \cup find_missing_and_act(s, tool_class, node_name, is_triage,
                              calls \o <<Sleep, "extract_failed">>, NoFacts)
  ELSE find_missing_and_act(s, tool_class, node_name, is_triage, calls, NoFacts)

\* 3. HANDLE CLARIFICATION
handle_clarification(s, calls) ==
  {IF e = "raise"
   THEN Result(TRUE, NoUpdates, calls \o <<Sleep, "explain">>, None, "raise")
   ELSE Result(FALSE,
               [NoUpdates EXCEPT !.keys = {"messages"},
                                 !.messages = <<AIMessage(e)>>],
               calls \o <<Sleep, "explain">>, None, "clarify")
     : e \in PlainOnly(s.messages, TextResults)}

\* 2. INTENT CHECK: a failed call leaves is_clarification False
\* an intent check whose failure leaves run_node as an exception
intent_check_propagates(s, tool_class, node_name, is_triage) ==
  IF should_process_input(s.messages) /\ user_input(s.messages) # "" THEN
    UNION {IF intent_result = "CLARIFICATION"
           THEN handle_clarification(s, <<Sleep, "intent">>)
           ELSE IF intent_result = "raise"
           THEN {Result(TRUE, NoUpdates, <<Sleep, "intent_failed">>, None,
                        "raise")}
           ELSE extract_data(s, tool_class, node_name, is_triage,
                             <<Sleep, "intent">>)
             : intent_result \in IntentResults}
  ELSE extract_data(s, tool_class, node_name, is_triage, <<>>)

intent_check(s, tool_class, node_name, is_triage) ==
  IF should_process_input(s.messages) /\ user_input(s.messages) # "" THEN
    UNION {IF intent_result = "CLARIFICATION"
           THEN handle_clarification(s, <<Sleep, "intent">>)
           ELSE extract_data(s, tool_class, node_name, is_triage,
                             IF intent_result = "raise"
                             THEN <<Sleep, "intent_failed">>
                             ELSE <<Sleep, "intent">>)
             : intent_result \in IntentResults}
  ELSE extract_data(s, tool_class, node_name, is_triage, <<>>)

\* run_node without the early exit of a completed triage
run_node_without_guard(s, tool_class, node_name, is_triage) ==
  intent_check(s, tool_class, node_name, is_triage)

\* every way one invocation of run_node can end
\* run_node whose early exit applies only when no section is pending
run_node_guard_when_idle(s, tool_class, node_name, is_triage) ==
  IF is_triage /\ s.triage_complete /\ s.pending_nodes = <<>>
  THEN {Result(FALSE, NoUpdates, <<>>, None, "skip")}
  ELSE intent_check(s, tool_class, node_name, is_triage)

\* run_node whose early exit applies only while a section is pending
run_node_guard_when_pending(s, tool_class, node_name, is_triage) ==
  IF is_triage /\ s.triage_complete /\ s.pending_nodes # <<>>
  THEN {Result(FALSE, NoUpdates, <<>>, None, "skip")}
  ELSE intent_check(s, tool_class, node_name, is_triage)

run_node_results(s, tool_class, node_name, is_triage) ==
  IF is_triage /\ s.triage_complete
  THEN {Result(FALSE, NoUpdates, <<>>, None, "skip")}
  ELSE intent_check(s, tool_class, node_name, is_triage)

\* a merge that loses the extracted facts of a node that asks a question
apply_updates_drop_facts(s, u) ==
  [messages |-> s.messages \o (IF "messages" \in u.keys THEN u.messages ELSE <<>>),
   facts |-> IF "pending_nodes" \in u.keys
             THEN model_copy(s.facts, u.facts) ELSE s.facts,
   pending_nodes |-> IF "pending_nodes" \in u.keys
                     THEN u.pending_nodes ELSE s.pending_nodes,
   triage_complete |-> IF "triage_complete" \in u.keys
                       THEN u.triage_complete ELSE s.triage_complete]

\* the graph merges a node's dictionary into its State: messages are added
\* (operator.add), every other key present is overwritten
\* a merge without the reducer: the messages of the update replace the history
apply_updates_replace_messages(s, u) ==
  [messages |-> IF "messages" \in u.keys THEN u.messages ELSE s.messages,
   facts |-> model_copy(s.facts, u.facts),
   pending_nodes |-> IF "pending_nodes" \in u.keys
                     THEN u.pending_nodes ELSE s.pending_nodes,
   triage_complete |-> IF "triage_complete" \in u.keys
                       THEN u.triage_complete ELSE s.triage_complete]

\* a merge that takes the extracted facts only from a node that asks
apply_updates_facts_on_ask_only(s, u) ==
  [messages |-> s.messages \o (IF "messages" \in u.keys THEN u.messages ELSE <<>>),
   facts |-> IF "pending_nodes" \in u.keys
             THEN s.facts ELSE model_copy(s.facts, u.facts),
   pending_nodes |-> IF "pending_nodes" \in u.keys
                     THEN u.pending_nodes ELSE s.pending_nodes,
   triage_complete |-> IF "triage_complete" \in u.keys
                       THEN u.triage_complete ELSE s.triage_complete]

apply_updates(s, u) ==
  [messages |-> s.messages \o (IF "messages" \in u.keys THEN u.messages ELSE <<>>),
   facts |-> model_copy(s.facts, u.facts),
   pending_nodes |-> IF "pending_nodes" \in u.keys
                     THEN u.pending_nodes ELSE s.pending_nodes,
   triage_complete |-> IF "triage_complete" \in u.keys
                       THEN u.triage_complete ELSE s.triage_complete]

\* an error handler that starts the session over, keeping the history
on_exception_reset(cs) == [InitialState EXCEPT !.messages = cs.messages]

\* except Exception: the error is printed, current_state is not assigned
\* an error handler that takes the user's message back out of the history
on_exception_drop_input(cs) ==
  [cs EXCEPT !.messages = SubSeq(@, 1, Len(@) - 1)]

\* an error handler that keeps what the graph had done before the failure
on_exception_keep_partial(cs) == state

on_exception(cs) == cs

\* current_state = State(**{k: v for k, v in result.items() if k in fields})
StateFromResult(result) ==
  [messages |-> result.messages, facts |-> result.facts,
   pending_nodes |-> result.pending_nodes,
   triage_complete |-> result.triage_complete]

\* ------------------------------------------------------------------ router
IsQuestion(m) ==
  m.type = "ai" /\ ~HasCheck(m.content) /\ ~HasClipboard(m.content)

\* router without the check of the last message
router_never_halts(s) ==
  IF ~s.triage_complete THEN "triage"
  ELSE IF s.pending_nodes # <<>> THEN s.pending_nodes[1]
  ELSE "classify"

\* router that waits for the user only while triage is running
router_halts_in_triage_only(s) ==
  IF Len(s.messages) > 0 /\ IsQuestion(Last(s.messages)) /\ ~s.triage_complete
  THEN END
  ELSE router_never_halts(s)

\* router that serves the last pending section first
router_back_of_queue(s) ==
  IF Len(s.messages) > 0 /\ IsQuestion(Last(s.messages)) THEN END
  ELSE IF ~s.triage_complete THEN "triage"
  ELSE IF s.pending_nodes # <<>> THEN Last(s.pending_nodes)
  ELSE "classify"

\* router that classifies while the last section is still pending
router_skips_last_section(s) ==
  IF Len(s.messages) > 0 /\ IsQuestion(Last(s.messages)) THEN END
  ELSE IF ~s.triage_complete THEN "triage"
  ELSE IF Len(s.pending_nodes) > 1 THEN s.pending_nodes[1]
  ELSE "classify"

\* router that does not look at triage_complete
router_ignores_triage(s) ==
  IF Len(s.messages) > 0 /\ IsQuestion(Last(s.messages)) THEN END
  ELSE IF s.pending_nodes # <<>> THEN s.pending_nodes[1]
  ELSE "classify"

\* router that waits for the user after every bot message
router_halts_on_any_bot_message(s) ==
  IF Len(s.messages) > 0 /\ Last(s.messages).type = "ai" THEN END
  ELSE router_never_halts(s)

\* router that serves the second pending section when there is one
router_skips_front(s) ==
  IF Len(s.messages) > 0 /\ IsQuestion(Last(s.messages)) THEN END
  ELSE IF ~s.triage_complete THEN "triage"
  ELSE IF Len(s.pending_nodes) > 1 THEN s.pending_nodes[2]
  ELSE IF s.pending_nodes # <<>> THEN s.pending_nodes[1]
  ELSE "classify"

router(s) ==
  IF Len(s.messages) > 0 /\ IsQuestion(Last(s.messages)) THEN END
  ELSE IF ~s.triage_complete THEN "triage"
  ELSE IF s.pending_nodes # <<>> THEN s.pending_nodes[1]
  ELSE "classify"

\* ----------------------------------------------------------------- actions
\* ------------------------------------------------- the checklist tool
MaxToolCalls == 3

\* the items of CHECK_LIST, in declaration order
ChecklistKeys ==
  <<"device_type", "duration", "contact_location", "special_rules_check",
    "connections", "conditional_active", "conditional_invasive",
    "conditional_non_invasive", "conditional_software">>

\* the first two options CHECK_LIST declares for an item
Options(k) ==
  CASE k = "device_type" -> <<"NON_INVASIVE", "INVASIVE_BODY_ORIFICE">>
    [] k = "duration" -> <<"TRANSIENT", "SHORT_TERM">>
    [] k = "contact_location" -> <<"INTACT_SKIN", "INJURED_SKIN">>
    [] k = "special_rules_check"
         -> <<"incorporates_medicinal_substance",
              "contraception_or_std_prevention">>
    [] k = "connections" -> <<"NOT_CONNECTED", "CONNECTED_TO_CLASS_I">>
    [] k = "conditional_active"
         -> <<"therapeutic_energy_exchange",
              "controls_class_IIb_therapeutic_device">>
    [] k = "conditional_invasive"
         -> <<"reusable_surgical_instrument", "supplies_ionizing_radiation">>
    [] k = "conditional_non_invasive"
         -> <<"channels_or_stores_liquids_for_infusion", "is_blood_bag">>
    [] k = "conditional_software"
         -> <<"impact_death_or_irreversible_deterioration",
              "impact_serious_deterioration_or_surgical_intervention">>
    [] OTHER -> <<"x", "y">>

\* the parameters TOOLS declares with type ARRAY
ArrayKeys ==
  {"contact_location", "special_rules_check", "conditional_active",
   "conditional_invasive", "conditional_non_invasive", "conditional_software"}

\* values: Python's None, a str, the repeated field of a function call's
\* arguments (iterable, not a str), a list
Null == [kind |-> "none", items |-> <<>>]
String(x) == [kind |-> "str", items |-> <<x>>]
RepeatedComposite(items) == [kind |-> "repeated", items |-> items]
list(v) == [kind |-> "list", items |-> v.items]

\* hasattr(v, '__iter__') and not isinstance(v, str)
IsIterable(v) == v.kind \in {"repeated", "list"}

\* CHECK_LIST as the module defines it: no item has an answer
CHECK_LIST == [k \in Range(ChecklistKeys) |-> Null]

\* the argument the model gives for key k, variant b
Arg(k, b) ==
  IF k \in ArrayKeys
  THEN RepeatedComposite(IF b = 1 THEN <<Options(k)[1]>>
                         ELSE <<Options(k)[1], Options(k)[2]>>)
  ELSE String(Options(k)[b])

\* The argument dictionaries of a record_answers call, as sequences of
\* (key, value) in insertion order: empty, one checklist key with a value or
\* with None, a key that is not in the checklist, two keys, every key.
Payloads ==
  {<<>>, <<<<"unknown_key", String("x")>>>>}
  \cup {<<<<k, Arg(k, b)>>>> : k \in Range(ChecklistKeys), b \in {1, 2}}
  \cup {<<<<k, Null>>>> : k \in Range(ChecklistKeys)}
  \cup {<<<<"duration", Arg("duration", b)>>,
          <<"device_type", Arg("device_type", c)>>>> : b, c \in {1, 2}}
  \cup {[i \in 1..Len(ChecklistKeys) |->
           <<ChecklistKeys[i], Arg(ChecklistKeys[i], b)>>] : b \in {1, 2}}

\* a completeness test that is satisfied by one answered item
is_checklist_complete_any(cl) == \E k \in DOMAIN cl : cl[k] # Null

is_checklist_complete(cl) == \A k \in DOMAIN cl : cl[k] # Null

\* an update that writes over the answer an item has
RECURSIVE update_checklist_overwrite(_, _)
update_checklist_overwrite(cl, answers) ==
  IF answers = <<>> THEN [cl |-> cl, updated |-> <<>>]
  ELSE LET k == Head(answers)[1]
           v == Head(answers)[2]
           hit == k \in DOMAIN cl /\ v # Null
           cl1 == IF hit
                  THEN [cl EXCEPT ![k] = IF IsIterable(v) THEN list(v) ELSE v]
                  ELSE cl
           rest == update_checklist_overwrite(cl1, Tail(answers))
       IN [cl |-> rest.cl,
           updated |-> (IF hit THEN <<k>> ELSE <<>>) \o rest.updated]

\* update_checklist: the checklist after the loop, and the list updated
RECURSIVE update_checklist(_, _)
update_checklist(cl, answers) ==
  IF answers = <<>> THEN [cl |-> cl, updated |-> <<>>]
  ELSE LET k == Head(answers)[1]
           v == Head(answers)[2]
           hit == k \in DOMAIN cl /\ v # Null /\ cl[k] = Null
           cl1 == IF hit
                  THEN [cl EXCEPT ![k] = IF IsIterable(v) THEN list(v) ELSE v]
                  ELSE cl
           rest == update_checklist(cl1, Tail(answers))
       IN [cl |-> rest.cl,
           updated |-> (IF hit THEN <<k>> ELSE <<>>) \o rest.updated]

\* record_answers: the checklist it leaves and the dictionary it returns
record_answers(cl, answers) ==
  LET u == update_checklist(cl, answers)
  IN [checklist |-> u.cl,
      result |-> [updated_fields |-> u.updated, current_state |-> u.cl,
                  is_complete |-> is_checklist_complete(u.cl)]]

NoResult ==
  [updated_fields |-> <<>>, current_state |-> CHECK_LIST, is_complete |-> FALSE]

\* the module is imported: nothing is answered, no call was made
ChecklistStart ==
  /\ checklist = CHECK_LIST
  /\ payload = <<>>
  /\ tool_result = NoResult
  /\ tool_calls = 0
  /\ gather_pc = "hello"
  /\ gather_line = ""

\* chat_with_llm executes a function call of the model
ToolCall ==
  /\ tool_calls < MaxToolCalls
  /\ \E args \in Payloads :
       /\ payload' = args
       /\ checklist' = record_answers(checklist, args).checklist
       /\ tool_result' = record_answers(checklist, args).result
  /\ tool_calls' = tool_calls + 1

\* ------------------------------------------------------------ the scraper
MaxPages == 3        \* pages the server has at most; start_page is among them
PageSize == 2        \* devices of a page

\* the devices the server holds on a page, as numbers in page order; a page
\* beyond the last one is empty
PageContent(p, pages) ==
  IF p <= pages THEN [i \in 1..PageSize |-> (p - 1) * PageSize + i] ELSE <<>>

\* fuzzy_search: the response to a successful request of page p
fuzzy_search(p, pages) ==
  [content |-> PageContent(p, pages), totalPages |-> pages,
   last |-> p >= pages]

\* the devices of the pages first..last, in page order
RECURSIVE PagesFrom(_, _, _)
PagesFrom(first, last, pages) ==
  IF first > last THEN <<>>
  ELSE PageContent(first, pages) \o PagesFrom(first + 1, last, pages)

NoFile == <<"no file">>
NoPage == 0          \* None, for end_page, total_pages and the resume page

\* all_devices.extend(page_devices), with the new devices put first
extend_in_front(devices, page_devices) == page_devices \o devices

\* all_devices.extend(page_devices)
extend(devices, page_devices) == devices \o page_devices

\* `is_last or current_page >= end_page`
is_done(is_last, page, last_wanted) == is_last \/ page >= last_wanted

\* the arguments of a call and the state of the server and of the file:
\* the file is absent or holds the pages before start_page (a resumed scrape)
ScrapeStart ==
  /\ server_pages \in 1..MaxPages
  /\ \E start_page \in 1..MaxPages, end_page \in {NoPage} \cup 1..(MaxPages + 1),
        exists \in BOOLEAN :
       LET loaded == IF exists
                     THEN PagesFrom(1, start_page - 1, server_pages)
                     ELSE <<>>
       IN /\ output_file = (IF exists THEN loaded ELSE NoFile)
          /\ scrape = [start_page |-> start_page, end_page |-> end_page,
                       all_devices |-> loaded, current_page |-> start_page,
                       total_pages |-> NoPage, resume |-> NoPage,
                       pc |-> "fetch"]
          /\ scrape_log = [loaded |-> loaded, requested |-> <<>>,
                           fetched |-> <<>>, interrupted_at |-> "nowhere"]

\* scrape_all_devices with its default arguments, not started
ScrapeIdle ==
  /\ server_pages = 1
  /\ output_file = NoFile
  /\ scrape = [start_page |-> 1, end_page |-> NoPage, all_devices |-> <<>>,
               current_page |-> 1, total_pages |-> NoPage, resume |-> NoPage,
               pc |-> "fetch"]
  /\ scrape_log = [loaded |-> <<>>, requested |-> <<>>, fetched |-> <<>>,
                   interrupted_at |-> "nowhere"]

\* the request of current_page succeeds: the first response fixes
\* total_pages and end_page, and the page's devices are added
FetchPage ==
  /\ scrape.pc = "fetch"
  /\ LET data == fuzzy_search(scrape.current_page, server_pages)
         first == scrape.total_pages = NoPage
         total == IF first THEN data.totalPages ELSE scrape.total_pages
         last_wanted == IF first /\ (scrape.end_page = NoPage
                                       \/ scrape.end_page > total)
                        THEN total ELSE scrape.end_page
     IN scrape' = [scrape EXCEPT
                     !.total_pages = total,
                     !.end_page = last_wanted,
                     !.all_devices = extend(@, data.content),
                     !.pc = "save"]
  /\ scrape_log' = [scrape_log EXCEPT
                      !.requested = Append(@, scrape.current_page),
                      !.fetched = Append(@, scrape.current_page)]
  /\ UNCHANGED <<output_file, server_pages>>
  /\ UNCHANGED <<bot_vars, cl_vars, filter_vars>>

\* the request of current_page fails: progress is saved, the page is
\* announced and the exception is raised again
FetchFails ==
  /\ scrape.pc = "fetch"
  /\ output_file' = scrape.all_devices
  /\ scrape' = [scrape EXCEPT !.resume = scrape.current_page,
                              !.pc = "raised"]
  /\ scrape_log' = [scrape_log EXCEPT
                      !.requested = Append(@, scrape.current_page)]
  /\ UNCHANGED server_pages
  /\ UNCHANGED <<bot_vars, cl_vars, filter_vars>>

\* the file is written after the page, and the loop ends at the last page
\* or at end_page
SavePage ==
  /\ scrape.pc = "save"
  /\ output_file' = scrape.all_devices
  /\ scrape' = [scrape EXCEPT
                  !.pc = IF is_done(fuzzy_search(scrape.current_page,
                                                 server_pages).last,
                                    scrape.current_page, scrape.end_page)
                         THEN "done" ELSE "next"]
  /\ UNCHANGED <<server_pages, scrape_log>>
  /\ UNCHANGED <<bot_vars, cl_vars, filter_vars>>

\* current_page += 1
NextPage ==
  /\ scrape.pc = "next"
  /\ scrape' = [scrape EXCEPT !.current_page = @ + 1, !.pc = "sleep"]
  /\ UNCHANGED <<output_file, server_pages, scrape_log>>
  /\ UNCHANGED <<bot_vars, cl_vars, filter_vars>>

\* time.sleep(sleep_seconds) returns
SleepOver ==
  /\ scrape.pc = "sleep"
  /\ scrape' = [scrape EXCEPT !.pc = "fetch"]
  /\ UNCHANGED <<output_file, server_pages, scrape_log>>
  /\ UNCHANGED <<bot_vars, cl_vars, filter_vars>>

\* KeyboardInterrupt anywhere in the try block: progress is saved and
\* current_page + 1 is announced
Interrupt ==
  /\ scrape.pc \in {"fetch", "save", "next", "sleep"}
  /\ output_file' = scrape.all_devices
  /\ scrape' = [scrape EXCEPT !.resume = scrape.current_page + 1,
                              !.pc = "interrupted"]
  /\ scrape_log' = [scrape_log EXCEPT !.interrupted_at = scrape.pc]
  /\ UNCHANGED server_pages
  /\ UNCHANGED <<bot_vars, cl_vars, filter_vars>>

\* ------------------------------------------------------- the device filter
MaxDevices == 3      \* devices in the input file

\* a trade name is a str, a dictionary with a list of texts, or None
StrName(text) == [kind |-> "str", texts |-> <<text>>]
Texts(texts) == [kind |-> "texts", texts |-> texts]
NoName == [kind |-> "none", texts |-> <<>>]

ClassIIa == "refdata.risk-class.class-iia"
ClassI == "refdata.risk-class.class-i"

\* devices of a scraped file: two with one basicUdi, two with one trade
\* name up to case and blanks, two without trade name and without uuid
Devices ==
  {[basicUdi |-> "B1", tradeName |-> StrName("Pump"), riskClass |-> ClassIIa,
    uuid |-> "u1", detailed |-> FALSE],
   [basicUdi |-> "B1", tradeName |-> StrName("Valve"), riskClass |-> ClassIIa,
    uuid |-> "u2", detailed |-> FALSE],
   [basicUdi |-> "B2", tradeName |-> Texts(<<" pump ">>),
    riskClass |-> ClassIIa, uuid |-> "u3", detailed |-> FALSE],
   [basicUdi |-> "B3", tradeName |-> NoName, riskClass |-> ClassI,
    uuid |-> None, detailed |-> FALSE],
   [basicUdi |-> "B4", tradeName |-> Texts(<<>>), riskClass |-> ClassIIa,
    uuid |-> None, detailed |-> FALSE]}

DeviceLists == UNION {[1..n -> Devices] : n \in 0..MaxDevices}

\* str.strip and str.lower on the texts above
str_strip(text) == IF text = " pump " THEN "pump" ELSE text
str_lower(text) ==
  CASE text = "Pump" -> "pump"
    [] text = "Valve" -> "valve"
    [] text = "IIa" -> "iia"
    [] OTHER -> text

\* a trade name compared as it is written, blanks and capitals included
trade_name_as_typed(device) ==
  IF device.tradeName.kind = "none" \/ device.tradeName.texts = <<>>
  THEN ""
  ELSE device.tradeName.texts[1]

\* the trade name a device is compared by (lines 105-112)
trade_name(device) ==
  IF device.tradeName.kind = "none" \/ device.tradeName.texts = <<>>
  THEN ""
  ELSE str_lower(str_strip(device.tradeName.texts[1]))

NoLimit == 0 - 1     \* None, for limit
NoClass == ""        \* None, for risk_class

\* `if limit`: Python's truth value of limit; None and 0 are false
limit_given(limit) == limit # NoLimit /\ limit # 0

\* the risk class code asked for (lines 77-80)
risk_class_code(risk_class) ==
  IF risk_class = NoClass THEN NoClass
  ELSE "refdata.risk-class.class-" \o str_lower(risk_class)

\* the loop of lines 87-124 from device i on
RECURSIVE filter_loop(_, _, _, _, _, _, _)
filter_loop(devices, i, seen_basic_udis, seen_trade_names, filtered, code, limit) ==
  IF i > Len(devices) THEN filtered
  ELSE LET device == devices[i]
           name == trade_name(device)
       IN IF \/ (code # NoClass /\ device.riskClass # code)
             \/ device.basicUdi \in seen_basic_udis
             \/ (name # "" /\ name \in seen_trade_names)
          THEN filter_loop(devices, i + 1, seen_basic_udis, seen_trade_names,
                           filtered, code, limit)
          ELSE IF limit_given(limit) /\ Len(filtered) + 1 >= limit
          THEN Append(filtered, device)
          ELSE filter_loop(devices, i + 1,
                           seen_basic_udis \cup {device.basicUdi},
                           IF name # "" THEN seen_trade_names \cup {name}
                           ELSE seen_trade_names,
                           Append(filtered, device), code, limit)

\* fetch_device_details: the server's record of the device with this uuid
fetch_device_details(uuid) ==
  [(CHOOSE d \in Devices : d.uuid = uuid) EXCEPT !.detailed = TRUE]

\* the arguments of a call
FilterStart ==
  /\ filter_args \in [all_devices : DeviceLists, risk_class : {NoClass, "IIa"},
                      limit : {NoLimit, 0, 1, 2}, fetch_details : BOOLEAN]
  /\ filtered_devices = <<>>
  /\ detailed_devices = <<>>
  /\ filter_pc = "filter"

\* filter_devices, not called
FilterIdle ==
  /\ filter_args = [all_devices |-> <<>>, risk_class |-> NoClass,
                    limit |-> NoLimit, fetch_details |-> TRUE]
  /\ filtered_devices = <<>>
  /\ detailed_devices = <<>>
  /\ filter_pc = "filter"

\* lines 72-126: the devices are filtered and deduplicated; without
\* fetch_details, or with nothing left, the list is returned
FilterAndDeduplicate ==
  /\ filter_pc = "filter"
  /\ filtered_devices' =
       filter_loop(filter_args.all_devices, 1, {}, {}, <<>>,
                   risk_class_code(filter_args.risk_class), filter_args.limit)
  /\ filter_pc' = IF filter_args.fetch_details /\ filtered_devices' # <<>>
                  THEN "details" ELSE "returned"
  /\ UNCHANGED <<filter_args, detailed_devices>>
  /\ UNCHANGED <<bot_vars, cl_vars, scrape_vars>>

\* one pass of the loop of lines 139-166: a device without uuid is kept,
\* the details replace the device when the request succeeds, the device is
\* kept when it fails
FetchDetails ==
  /\ filter_pc = "details"
  /\ Len(detailed_devices) < Len(filtered_devices)
  /\ LET device == filtered_devices[Len(detailed_devices) + 1]
     IN IF device.uuid = None
        THEN detailed_devices' = Append(detailed_devices, device)
        ELSE \E outcome \in {"ok", "HTTPError", "RequestException"} :
               detailed_devices' =
                 Append(detailed_devices,
                        IF outcome = "ok"
                        THEN fetch_device_details(device.uuid) ELSE device)
  /\ UNCHANGED <<filter_args, filtered_devices, filter_pc>>
  /\ UNCHANGED <<bot_vars, cl_vars, scrape_vars>>

\* lines 168-173: the detailed list is returned
ReturnDetailed ==
  /\ filter_pc = "details"
  /\ Len(detailed_devices) = Len(filtered_devices)
  /\ filtered_devices' = detailed_devices
  /\ filter_pc' = "returned"
  /\ UNCHANGED <<filter_args, detailed_devices>>
  /\ UNCHANGED <<bot_vars, cl_vars, scrape_vars>>

NotAsked == [node |-> None, field |-> None]

\* the section and field of the question a finished turn ended with
AskedBy(turn_log) ==
  IF turn_log # <<>> /\ Last(turn_log).branch = "ask"
  THEN [node |-> Last(turn_log).node, field |-> Last(turn_log).asked]
  ELSE NotAsked

\* the chatbot before the first input
BotStart ==
  /\ current_state = InitialState
  /\ state = InitialState
  /\ pc = "input"
  /\ line = ""
  /\ node = "triage"
  /\ turns = 0
  /\ log = <<>>
  /\ prev_asked = NotAsked
  /\ before_turn = InitialState

Init == BotStart /\ ChecklistStart /\ ScrapeIdle /\ FilterIdle

\* the lines a user may type
Lines == {"user text", "", " EXIT ", "state", "quit"}

\* str.strip and str.lower, on the lines above
strip(raw) == IF raw = " EXIT " THEN "EXIT" ELSE raw

lower(text) == IF text = "EXIT" THEN "exit" ELSE text

\* a test for the empty line that never finds one
is_empty_never(text) == FALSE

\* `if not user_input`
is_empty(text) == text = ""

\* a classification report is part of the history
ReportProduced(messages) ==
  \E i \in 1..Len(messages) : messages[i] = AIMessage(Report)

\* the turns a session with this history is followed for; lines are read
\* while it has turns left
TurnBound(messages) ==
  IF \E i \in 1..Len(messages) : messages[i] = HumanMessage("quit")
  THEN MaxQuitTurns
  ELSE MaxTurns + (IF ReportProduced(messages) THEN MaxReportTurns ELSE 0)

\* __main__: one pass of the session loop up to graph.invoke. exit leaves
\* the loop, state prints the fields that are set, an empty line is
\* skipped; every other line is appended and the graph is invoked, its
\* entry point being the triage node
UserInput ==
  /\ pc = "input"
  /\ turns < TurnBound(current_state.messages)
  /\ \E raw \in Lines :
       LET text == strip(raw) IN
       /\ line' = raw
       /\ IF lower(text) = "exit"
          THEN /\ pc' = "exited"
               /\ UNCHANGED <<current_state, state, node, turns, log,
                              prev_asked, before_turn>>
          ELSE IF lower(text) = "state" \/ is_empty(text)
          THEN UNCHANGED <<current_state, state, pc, node, turns, log,
                           prev_asked, before_turn>>
          ELSE /\ turns < TurnBound(Append(current_state.messages,
                                            HumanMessage(text)))
               /\ current_state' =
                    [current_state EXCEPT
                       !.messages = Append(@, HumanMessage(text))]
               /\ state' = current_state'
               /\ pc' = "node"
               /\ node' = "triage"
               /\ turns' = turns + 1
               /\ log' = <<>>
               /\ prev_asked' = AskedBy(log)
               /\ before_turn' = current_state
  /\ UNCHANGED <<cl_vars, scrape_vars, filter_vars>>

\* ------------------------------------------------------ the checklist chatbot
\* the lines a user may type at gather_info's prompt
GatherLines == {"", "device answer", "quit", " EXIT "}

\* chat_with_llm, ending at position `after` unless a model call raises:
\* the model is called; a record_answers function call of the reply is
\* executed and the model is called again.  The history only feeds the
\* model, whose replies are arbitrary here, and is left out.
chat_with_llm(after) ==
  \/ /\ gather_pc' \in {after, "raised"}
     /\ UNCHANGED <<checklist, payload, tool_result, tool_calls>>
  \/ /\ ToolCall
     /\ gather_pc' \in {after, "raised"}

\* gather_info up to its loop: the greeting
Hello ==
  /\ gather_pc = "hello"
  /\ chat_with_llm("loop")
  /\ UNCHANGED gather_line
  /\ UNCHANGED <<bot_vars, scrape_vars, filter_vars>>

\* one pass of gather_info's loop: an empty line is skipped, quit and exit
\* return, every other line is sent to the model
GatherInput ==
  /\ gather_pc = "loop"
  /\ ~is_checklist_complete(checklist)
  /\ \E raw \in GatherLines :
       LET text == strip(raw) IN
       /\ gather_line' = raw
       /\ IF is_empty(text)
          THEN UNCHANGED <<checklist, payload, tool_result, tool_calls,
                           gather_pc>>
          ELSE IF lower(text) \in {"quit", "exit"}
          THEN /\ gather_pc' = "returned"
               /\ UNCHANGED <<checklist, payload, tool_result, tool_calls>>
          ELSE chat_with_llm("loop")
  /\ UNCHANGED <<bot_vars, scrape_vars, filter_vars>>

\* the loop condition fails: the summary is printed
Summary ==
  /\ gather_pc = "loop"
  /\ is_checklist_complete(checklist)
  /\ gather_pc' = "summary"
  /\ UNCHANGED <<checklist, payload, tool_result, tool_calls, gather_line>>
  /\ UNCHANGED <<bot_vars, scrape_vars, filter_vars>>

LogEntry(node_name, r) ==
  [node |-> node_name, calls |-> r.calls, asked |-> r.asked,
   branch |-> r.branch, data |-> r.updates.facts, events |-> r.events,
   reply |-> r.reply,
   last_ai_msg |-> IF r.calls # <<>> /\ r.calls[1] # "question"
                   THEN last_ai_msg(state.messages) ELSE None]

\* a node built on run_node runs; an exception leaves graph.invoke and is
\* caught by the session loop, which keeps current_state as it is
RunNode(tool_class, node_name, is_triage) ==
  /\ pc = "node"
  /\ node = node_name
  /\ \E r \in run_node_results(state, tool_class, node_name, is_triage) :
       /\ log' = Append(log, LogEntry(node_name, r))
       /\ IF r.raised
          THEN /\ current_state' = on_exception(current_state)
               /\ state' = current_state'
               /\ pc' = "input"
          ELSE /\ state' = apply_updates(state, r.updates)
               /\ pc' = "router"
               /\ UNCHANGED current_state
  /\ UNCHANGED <<line, node, turns, prev_asked, before_turn>>
  /\ UNCHANGED <<cl_vars, scrape_vars, filter_vars>>

triage_node == RunNode(TriageNode, "triage", TRUE)
non_invasive_node == RunNode(NonInvasiveNode, "non_invasive", FALSE)
invasive_node == RunNode(InvasiveNode, "invasive", FALSE)
active_node == RunNode(ActiveNode, "active", FALSE)
software_node == RunNode(SoftwareNode, "software", FALSE)
special_rules_node == RunNode(SpecialRulesNode, "special_rules", FALSE)

\* classify_node, followed by the edge classify -> END
classify_node ==
  /\ pc = "node"
  /\ node = "classify"
  /\ \E response \in TextResults :
       IF response = "raise"
       THEN /\ log' = Append(log, [node |-> "classify", calls |-> <<"classify">>,
                                   asked |-> None, branch |-> "raise",
                                   data |-> NoFacts,
                                   events |-> <<"classify">>,
                                   reply |-> NoFacts, last_ai_msg |-> None])
            /\ current_state' = on_exception(current_state)
            /\ state' = current_state'
       ELSE /\ log' = Append(log, [node |-> "classify", calls |-> <<"classify">>,
                                   asked |-> None, branch |-> "report",
                                   data |-> NoFacts,
                                   events |-> <<"classify">>,
                                   reply |-> NoFacts, last_ai_msg |-> None])
            /\ state' = [state EXCEPT !.messages = Append(@, AIMessage(Report))]
            /\ current_state' = StateFromResult(state')
  /\ pc' = "input"
  /\ UNCHANGED <<line, node, turns, prev_asked, before_turn>>
  /\ UNCHANGED <<cl_vars, scrape_vars, filter_vars>>

\* the conditional edge after a section node: END returns to the session
\* loop, which replaces current_state by the result
Router ==
  /\ pc = "router"
  /\ IF router(state) = END
     THEN /\ current_state' = StateFromResult(state)
          /\ pc' = "input"
          /\ UNCHANGED node
     ELSE /\ node' = router(state)
          /\ pc' = "node"
          /\ UNCHANGED current_state
  /\ UNCHANGED <<line, state, turns, log, prev_asked, before_turn>>
  /\ UNCHANGED <<cl_vars, scrape_vars, filter_vars>>

Next ==
  \/ UserInput
  \/ triage_node
  \/ non_invasive_node
  \/ invasive_node
  \/ active_node
  \/ software_node
  \/ special_rules_node
  \/ classify_node
  \/ Router

Spec == Init /\ [][Next]_vars

ChecklistInit == BotStart /\ ChecklistStart /\ ScrapeIdle /\ FilterIdle
ChecklistNext == Hello \/ GatherInput \/ Summary
ChecklistSpec == ChecklistInit /\ [][ChecklistNext]_vars

ScrapeInit == BotStart /\ ChecklistStart /\ ScrapeStart /\ FilterIdle
ScrapeNext ==
  \/ FetchPage
  \/ FetchFails
  \/ SavePage
  \/ NextPage
  \/ SleepOver
  \/ Interrupt
ScrapeSpec == ScrapeInit /\ [][ScrapeNext]_vars

FilterInit == BotStart /\ ChecklistStart /\ ScrapeIdle /\ FilterStart
FilterNext == FilterAndDeduplicate \/ FetchDetails \/ ReturnDetailed
FilterSpec == FilterInit /\ [][FilterNext]_vars

TypeOK ==
  /\ pc \in {"input", "node", "router", "exited"}
  /\ line \in Lines
  /\ node \in NodeNames \cup {"classify"}
  /\ turns \in 0..(MaxTurns + MaxReportTurns)
  /\ state.triage_complete \in BOOLEAN
  /\ current_state.triage_complete \in BOOLEAN
  /\ tool_calls \in 0..MaxToolCalls
  /\ gather_pc \in {"hello", "loop", "summary", "returned", "raised"}
  /\ gather_line \in GatherLines
  /\ scrape.pc \in {"fetch", "save", "next", "sleep", "done", "raised",
                    "interrupted"}
  /\ scrape.current_page \in 1..(MaxPages + 1)
  /\ server_pages \in 1..MaxPages
  /\ filter_pc \in {"filter", "details", "returned"}
  /\ Len(filtered_devices) <= MaxDevices

\* ------------------------------------------------------------------ claims
\* the step is an invocation of a node, or of the classifier
NodeStep == log' # log /\ log' # <<>> /\ Len(log') = Len(log) + 1
Entry == Last(log')

QuestionLast(s) == Len(s.messages) > 0 /\ IsQuestion(Last(s.messages))

\* a user message lies between any two questions of the history
UserBetweenQuestions(messages) ==
  \A j \in 1..Len(messages) :
    IsQuestion(messages[j]) =>
      \A i \in 1..(j - 1) :
        IsQuestion(messages[i]) =>
          \E k \in (i + 1)..(j - 1) : messages[k].type = "human"

\* C1: in every reachable history, of the graph and of the session loop, two
\* bot messages without status and report marker are never adjacent nor
\* separated by bot status messages only: a user message lies between them.
C1_NoDoubleQuestion ==
  /\ UserBetweenQuestions(state.messages)
  /\ UserBetweenQuestions(current_state.messages)

\* C1 witness: a committed history with two questions, asked in two turns
C1_Witness ==
  /\ pc = "input"
  /\ \E i, j \in 1..Len(current_state.messages) :
       /\ i < j
       /\ IsQuestion(current_state.messages[i])
       /\ IsQuestion(current_state.messages[j])

\* C2: when the router is evaluated and the last message is a bot message
\* without status and report marker, the graph ends the turn whatever
\* triage_complete, pending_nodes and the facts are: the session loop gets the
\* state as it is and no node and no classifier runs; a node is only ever
\* about to run when the last message is not such a question.
C2_HaltOnQuestion ==
  [][/\ (pc = "router" /\ QuestionLast(state))
          => (pc' = "input" /\ log' = log /\ current_state' = state)
     /\ pc' = "node" => ~QuestionLast(state')]_vars

\* C2 witness: the router halted on a question after triage was complete,
\* with sections still pending
C2_Witness ==
  /\ pc = "input"
  /\ log # <<>>
  /\ Last(log).branch \in {"ask", "clarify"}
  /\ QuestionLast(current_state)
  /\ current_state.triage_complete
  /\ current_state.pending_nodes # <<>>

\* C3: when the router does not halt (the last message is a user message or a
\* bot status message) the next node is triage if triage_complete is false,
\* otherwise the front of pending_nodes if there is one, otherwise classify.
C3_RouteOrder ==
  [][(pc = "router" /\ ~QuestionLast(state))
       => /\ pc' = "node"
          /\ node' = IF ~state.triage_complete THEN "triage"
                     ELSE IF Len(state.pending_nodes) > 0
                          THEN Head(state.pending_nodes)
                          ELSE "classify"]_vars

\* C3 witness: the router passed the skipped triage of a later turn on to
\* the front of a queue of more than one section
C3_Witness ==
  /\ pc = "node"
  /\ Len(log) = 1
  /\ log[1].branch = "skip"
  /\ Len(state.pending_nodes) > 1
  /\ node = state.pending_nodes[1]
  /\ node # Last(state.pending_nodes)

\* the dependencies the field descriptions declare ("If it ...: ..."):
\* the prerequisite field and the value it must have
Dependent ==
  {"orifice_location", "energy_is_hazardous", "immediate_danger_monitoring",
   "disinfects_invasive_devices", "tissue_contacts_intact_skin_only",
   "nanomaterial_exposure", "inhalation_essential_impact",
   "substance_systemic_absorption"}

Prerequisite(f) ==
  CASE f = "orifice_location" -> <<"is_surgically_invasive", "false">>
    [] f = "energy_is_hazardous" -> <<"administers_energy", "true">>
    [] f = "immediate_danger_monitoring" -> <<"monitors_vital_functions", "true">>
    [] f = "disinfects_invasive_devices" -> <<"is_disinfecting_device", "true">>
    [] f = "tissue_contacts_intact_skin_only"
         -> <<"contains_human_or_animal_tissue", "true">>
    [] f = "nanomaterial_exposure" -> <<"contains_nanomaterial", "true">>
    [] f = "inhalation_essential_impact"
         -> <<"is_inhalation_drug_delivery", "true">>
    [] f = "substance_systemic_absorption"
         -> <<"is_substance_absorbed_in_body", "true">>

\* C4: the missing-field scan never selects a field with a declared
\* dependency unless its prerequisite is set and has the required value:
\* whenever a node has just asked about such a field, the merged facts hold
\* the required value for the prerequisite.
C4_ConditionalGating ==
  (pc = "router" /\ log # <<>> /\ Last(log).branch = "ask"
     /\ Last(log).asked \in Dependent)
    => state.facts[Prerequisite(Last(log).asked)[1]]
         = Prerequisite(Last(log).asked)[2]

\* C4, the part the scan's order guarantees: a dependent field is never
\* selected while its prerequisite is unset
C4_PrerequisiteSet ==
  (pc = "router" /\ log # <<>> /\ Last(log).branch = "ask"
     /\ Last(log).asked \in Dependent)
    => state.facts[Prerequisite(Last(log).asked)[1]] # None

\* C5: idempotent re-ask.  If the previous turn ended with a question about
\* field F of a section, and a node of this turn treats the user's reply as
\* an answer, gets no update from the Extractor (an empty object or a failed
\* call) and generates a question, that question is about F, in the same
\* section.
C5_IdempotentReask ==
  [][(/\ NodeStep
      /\ prev_asked # NotAsked
      /\ Entry.branch = "ask"
      /\ \E i \in 1..Len(Entry.calls) :
           Entry.calls[i] \in {"extract", "extract_failed"}
      /\ Entry.data = NoFacts)
       => (Entry.asked = prev_asked.field /\ Entry.node = prev_asked.node)]_vars

\* C5 witness: a section other than triage has asked again, after an
\* extraction without result, the question the turn before ended with
C5_Witness ==
  /\ pc = "router"
  /\ prev_asked # NotAsked
  /\ prev_asked.node # "triage"
  /\ Last(log).branch = "ask"
  /\ Last(log).calls = <<"intent", "extract", "question">>
  /\ Last(log).data = NoFacts
  /\ Last(log).asked = prev_asked.field

IsSuffix(s, t) ==
  Len(s) <= Len(t) /\ s = SubSeq(t, Len(t) - Len(s) + 1, Len(t))

\* the queue of section 4.6, by rule: which sections a fact set calls for
Scheduled(facts) ==
  SelectSeq(<<"invasive", "non_invasive", "active", "software", "special_rules">>,
            LAMBDA n : \/ n = "invasive" /\ facts["is_invasive"] = "true"
                       \/ n = "non_invasive" /\ facts["is_invasive"] = "false"
                       \/ n = "active" /\ facts["is_active"] = "true"
                       \/ n = "software" /\ facts["is_software"] = "true"
                       \/ n = "special_rules")

\* C6: section completion monotonicity.  Once triage is complete in the
\* conversation state, every change of pending_nodes, in the session loop's
\* state and from node to node within a turn, removes exactly the front
\* element; pending_nodes is a suffix of the queue computed when triage
\* completed, so a popped section never comes back.
C6_PendingShrinksFromFront ==
  [][/\ (current_state.triage_complete
           /\ current_state'.pending_nodes # current_state.pending_nodes)
          => /\ current_state.pending_nodes # <<>>
             /\ current_state'.pending_nodes = Tail(current_state.pending_nodes)
     /\ (state.triage_complete /\ pc' # "input"
           /\ state'.pending_nodes # state.pending_nodes)
          => /\ state.pending_nodes # <<>>
             /\ state'.pending_nodes = Tail(state.pending_nodes)
     /\ current_state'.triage_complete
          => IsSuffix(current_state'.pending_nodes,
                      Scheduled(current_state'.facts))]_vars

\* C6 witness: the conversation state after a section was popped from a
\* queue of more than one section
C6_Witness ==
  /\ pc = "input"
  /\ current_state.triage_complete
  /\ current_state.pending_nodes # <<>>
  /\ Len(current_state.pending_nodes) < Len(Scheduled(current_state.facts))

\* C7: triage guard.  An invocation of the triage node while triage_complete
\* is true returns the empty update: the state of the graph is unchanged (no
\* message, no fact, pending_nodes not recomputed), no model call is made,
\* and control passes to the router.
C7_TriageGuard ==
  [][(pc = "node" /\ node = "triage" /\ state.triage_complete /\ NodeStep)
       => /\ state' = state
          /\ Entry.calls = <<>>
          /\ Entry.asked = None
          /\ pc' = "router"
          /\ current_state' = current_state]_vars

\* C7 witness: the triage node has run as the entry point of a turn that
\* follows the completion of triage
C7_Witness ==
  /\ pc = "router"
  /\ node = "triage"
  /\ state.triage_complete
  /\ Len(log) = 1
  /\ log[1].branch = "skip"
  /\ should_process_input(state.messages)

\* C8: triage_complete of the conversation state changes only from false to
\* true, in no turn back to false, also not in a turn that ends in an error;
\* and triage completes only in a turn that began with triage_complete false.
C8_TriageCompleteOnce ==
  [][/\ current_state.triage_complete => current_state'.triage_complete
     /\ (NodeStep /\ Entry.branch = "triage_done")
          => (~state.triage_complete /\ ~current_state.triage_complete)]_vars

\* C8 witness: a turn has ended in an error after triage was complete
C8_Witness ==
  /\ pc = "input"
  /\ current_state.triage_complete
  /\ log # <<>>
  /\ Last(log).branch = "raise"

\* C9: clarification turn.  When the Intent Classifier returns CLARIFICATION
\* the node appends exactly one bot message, does not run the Extractor,
\* leaves facts, pending_nodes and triage_complete unchanged, and the router
\* then halts.
C9_ClarificationHalts ==
  [][(NodeStep /\ Entry.branch = "clarify")
       => /\ Len(state'.messages) = Len(state.messages) + 1
          /\ Last(state'.messages).type = "ai"
          /\ Entry.calls = <<"intent", "explain">>
          /\ state'.facts = state.facts
          /\ state'.pending_nodes = state.pending_nodes
          /\ state'.triage_complete = state.triage_complete
          /\ router(state') = END]_vars

\* C9, without the router: what the node itself does on a clarification
C9_ClarificationFrame ==
  [][(NodeStep /\ Entry.branch = "clarify")
       => /\ Len(state'.messages) = Len(state.messages) + 1
          /\ Last(state'.messages).type = "ai"
          /\ Entry.calls = <<"intent", "explain">>
          /\ state'.facts = state.facts
          /\ state'.pending_nodes = state.pending_nodes
          /\ state'.triage_complete = state.triage_complete]_vars

\* C10: when triage completes, pending_nodes is the queue built from the
\* merged triage facts in the fixed order invasive or non_invasive, active,
\* software, special_rules; an invasive device that is neither active nor
\* software gets exactly invasive, special_rules.
C10_PendingQueue ==
  [][(NodeStep /\ Entry.branch = "triage_done")
       => /\ state'.triage_complete
          /\ state'.pending_nodes = Scheduled(state'.facts)
          /\ (/\ state'.facts["is_invasive"] = "true"
              /\ state'.facts["is_active"] = "false"
              /\ state'.facts["is_software"] = "false")
               => state'.pending_nodes = <<"invasive", "special_rules">>]_vars

\* C10 witness: triage has just completed for an invasive device that is
\* neither active nor software, with facts gathered over several turns
C10_Witness ==
  /\ pc = "router"
  /\ Last(log).branch = "triage_done"
  /\ turns > 1
  /\ state.facts["is_invasive"] = "true"
  /\ state.facts["is_active"] = "false"
  /\ state.facts["is_software"] = "false"
  /\ state.pending_nodes = <<"invasive", "special_rules">>

SpecialRulesStatus == AIMessage(NodeStatus("special_rules"))
ReportMessage == AIMessage(Report)

\* the completion message of the special_rules section is in the history
SpecialRulesCompleted(messages) ==
  \E i \in 1..Len(messages) : messages[i] = SpecialRulesStatus

\* C11: the Classifier is only ever about to run, and a classification
\* report only ever lies in a history (of the graph or of the session loop),
\* when the special_rules section has completed earlier in the conversation:
\* its completion message precedes the report.
C11_ReportAfterSpecialRules ==
  /\ (pc = "node" /\ node = "classify") => SpecialRulesCompleted(state.messages)
  /\ \A s \in {state, current_state} :
       \A j \in 1..Len(s.messages) :
         s.messages[j] = ReportMessage
           => SpecialRulesCompleted(SubSeq(s.messages, 1, j - 1))

\* C11 witness: a turn has ended with the classification report committed
C11_Witness ==
  /\ pc = "input"
  /\ Len(current_state.messages) > 0
  /\ Last(current_state.messages) = ReportMessage

\* C12: the Classifier is only about to run in a state in which triage is
\* complete and the pending queue is empty, and a turn that has ended with
\* the report has committed such a state.
C12_ClassifyWhenAllDone ==
  /\ (pc = "node" /\ node = "classify")
       => (state.triage_complete /\ state.pending_nodes = <<>>)
  /\ (pc = "input" /\ log # <<>> /\ Last(log).branch = "report")
       => (current_state.triage_complete /\ current_state.pending_nodes = <<>>)

\* C12 witness: the router has selected the Classifier after the last
\* section was popped in this same turn
C12_Witness ==
  /\ pc = "node"
  /\ node = "classify"
  /\ log # <<>>
  /\ Last(log).branch = "node_done"

\* the section schema a node is built on
ToolClass(node_name) ==
  CASE node_name = "triage" -> TriageNode
    [] node_name = "non_invasive" -> NonInvasiveNode
    [] node_name = "invasive" -> InvasiveNode
    [] node_name = "active" -> ActiveNode
    [] node_name = "software" -> SoftwareNode
    [] node_name = "special_rules" -> SpecialRulesNode

\* C13: intent fail-open.  When the Intent Classifier call of an invocation
\* fails, the reply is treated as an answer: no explanation is generated, the
\* Extractor is the next model call of the same invocation, and the scan
\* runs, so that the invocation ends by asking or by completing the section
\* with the extracted facts merged.  The failure is not an error of the turn:
\* the invocation raises only if the Question Generator call that follows
\* the extraction fails itself.
C13_IntentFailOpen ==
  [][(NodeStep /\ Entry.calls # <<>> /\ Entry.calls[1] = "intent_failed")
       => /\ Len(Entry.calls) >= 2
          /\ Entry.calls[2] \in {"extract", "extract_failed"}
          /\ "explain" \notin Range(Entry.calls)
          /\ Entry.branch \in {"ask", "triage_done", "node_done", "raise"}
          /\ Entry.branch = "raise"
               => (Last(Entry.calls) = "question" /\ Entry.asked # None)
          /\ Entry.branch # "raise"
               => /\ pc' = "router"
                  /\ state'.facts = model_copy(state.facts, Entry.data)]_vars

\* C13 witness: after a failed intent call the Extractor returned facts and
\* the section asked for the next missing field
C13_Witness ==
  /\ pc = "router"
  /\ log # <<>>
  /\ Last(log).calls = <<"intent_failed", "extract", "question">>
  /\ Last(log).data # NoFacts
  /\ Last(log).branch = "ask"

\* C14: when the Extractor call of an invocation fails, the update set is
\* empty and no fact is guessed: the invocation goes on to the scan, which
\* selects the first missing field of the section on the facts of before the
\* turn (the field the previous turn asked about, if it ended with a
\* question), and the facts of the graph and of the session keep the values
\* they had before the turn.
C14_ExtractorFailure ==
  [][(NodeStep /\ "extract_failed" \in Range(Entry.calls))
       => /\ Entry.data = NoFacts
          /\ Entry.branch \in {"ask", "raise"}
          /\ Entry.asked # None
          /\ Entry.asked = find_missing(ToolClass(Entry.node), current_state.facts)
          /\ prev_asked # NotAsked
               => (Entry.asked = prev_asked.field /\ Entry.node = prev_asked.node)
          /\ Last(Entry.calls) = "question"
          /\ state'.facts = current_state.facts
          /\ current_state'.facts = current_state.facts]_vars

\* C14 witness: the Extractor call failed (no reply at all) and the section
\* asked again the question the previous turn ended with
C14_Witness ==
  /\ pc = "router"
  /\ log # <<>>
  /\ Last(log).calls = <<"intent", "extract_failed", "question">>
  /\ Last(log).reply = NoFacts
  /\ Last(log).branch = "ask"
  /\ prev_asked # NotAsked
  /\ Last(log).asked = prev_asked.field

\* C15: when the Question Generator call or the Classifier call fails, the
\* exception ends the turn: control is back at the session loop, no question
\* and no report is appended (the history ends with the user's message), and
\* the session state is exactly the one committed before the failure; facts
\* extracted and status messages produced earlier in the turn are dropped
\* with the graph's state.
C15_GeneratorFailureEndsTurn ==
  [][(/\ NodeStep
      /\ Entry.branch = "raise"
      /\ Last(Entry.calls) \in {"question", "classify"})
       => /\ pc' = "input"
          /\ current_state' = current_state
          /\ state' = current_state
          /\ Last(current_state'.messages).type = "human"]_vars

\* C15 witness: the Question Generator failed after the Extractor had
\* returned facts in the same invocation
C15_Witness ==
  /\ pc = "input"
  /\ log # <<>>
  /\ Last(log).branch = "raise"
  /\ Last(Last(log).calls) = "question"
  /\ Last(log).reply # NoFacts
  /\ validates(Last(log).reply)

\* C13 as stated: a turn in which the Intent Classifier call failed never
\* ends in an error.
C13_IntentFailureNeverErrors ==
  [][(NodeStep /\ Entry.calls # <<>> /\ Entry.calls[1] = "intent_failed")
       => (Entry.branch # "raise" /\ pc' = "router")]_vars

\* every model call of an invocation directly follows a delay
Delayed(events) ==
  \A i \in 1..Len(events) :
    IsCall(events[i]) => (i > 1 /\ events[i - 1] = Sleep)

\* C16: every external-model call (intent classification, clarification
\* explanation, extraction, question generation, final classification) is
\* directly preceded by the rate-limit delay.
C16_DelayBeforeEveryCall ==
  [][NodeStep => Delayed(Entry.events)]_vars

\* C16, the part that holds: the four call sites of the section engine
\* observe the delay
C16_SectionCallsDelayed ==
  [][(NodeStep /\ Entry.node # "classify") => Delayed(Entry.events)]_vars

Count(seq, S) == Cardinality({i \in 1..Len(seq) : seq[i] \in S})

\* the model calls of a whole turn, in order
TurnCalls[k \in 0..Len(log)] ==
  IF k = 0 THEN <<>> ELSE TurnCalls[k - 1] \o log[k].calls

\* C17: no retries.  In one invocation the Intent Classifier, the Extractor
\* and the Question Generator / clarification explanation are each called at
\* most once; in one turn the Classifier, and also the Intent Classifier and
\* the Extractor, are called at most once, so a failed intent or extraction
\* call is not attempted again; an invocation whose question, explanation or
\* classification call failed is the last one of its turn.
C17_NoRetries ==
  /\ \A k \in 1..Len(log) :
       /\ Count(log[k].calls, {"intent", "intent_failed"}) <= 1
       /\ Count(log[k].calls, {"extract", "extract_failed"}) <= 1
       /\ Count(log[k].calls, {"question", "explain"}) <= 1
       /\ Count(log[k].calls, {"classify"}) <= 1
       /\ log[k].branch = "raise"
            => (k = Len(log) /\ pc \in {"input", "exited"})
  /\ Count(TurnCalls[Len(log)], {"classify"}) <= 1
  /\ Count(TurnCalls[Len(log)], {"intent", "intent_failed"}) <= 1
  /\ Count(TurnCalls[Len(log)], {"extract", "extract_failed"}) <= 1

\* C17 witness: all three calls of an invocation failed, each made once
C17_Witness ==
  /\ pc = "input"
  /\ log # <<>>
  /\ Last(log).calls = <<"intent_failed", "extract_failed", "question">>
  /\ Last(log).reply = NoFacts
  /\ Last(log).branch = "raise"

StatusTexts == {TriageStatus} \cup {NodeStatus(n) : n \in NodeNames}

\* the last message is a status message of the engine
StatusLast(s) ==
  /\ Len(s.messages) > 0
  /\ Last(s.messages).type = "ai"
  /\ Last(s.messages).content \in StatusTexts

\* C18: automatic continuation.  When the router is evaluated after a status
\* message, it selects the next pending section, or the Classifier if none
\* is pending, within the same turn: the session loop is not reached and no
\* user input is taken.  Hence a turn that ends without error has committed
\* a history whose last message is a bot message without status marker (a
\* question or a clarification) or the classification report, never a
\* status message.
C18_AutomaticContinuation ==
  [][/\ (pc = "router" /\ StatusLast(state))
          => /\ pc' = "node"
             /\ node' = (IF state.pending_nodes # <<>>
                         THEN state.pending_nodes[1] ELSE "classify")
             /\ turns' = turns
             /\ current_state' = current_state
     /\ (pc # "input" /\ pc' = "input" /\ Last(log').branch # "raise")
          => /\ (QuestionLast(current_state')
                   \/ Last(current_state'.messages) = ReportMessage)
             /\ ~StatusLast(current_state')]_vars

\* C18 witness: a turn in which a section completed has ended with the
\* question of the section after it
C18_Witness ==
  /\ pc = "input"
  /\ Len(log) >= 3
  /\ \E k \in 2..Len(log) : log[k].branch = "node_done"
  /\ Last(log).branch = "ask"
  /\ QuestionLast(current_state)

\* C19: if the Extractor's reply gives one field a value outside its
\* enumeration, the call does not fail and only that field is rejected: the
\* valid values of the same reply are merged into the facts, the field with
\* the invalid value keeps the value it had.
C19_InvalidFieldOnly ==
  [][(NodeStep /\ ~validates(Entry.reply))
       => /\ "extract" \in Range(Entry.calls)
          /\ Entry.branch # "raise"
               => \A f \in StateFields :
                    Entry.reply[f] # None
                      => state'.facts[f] =
                           (IF Entry.reply[f] \in Range(FieldType(f))
                            THEN Entry.reply[f] ELSE state.facts[f])]_vars

\* C19, what holds instead: a reply with an invalid value is dropped as a
\* whole, as a failed extraction is, and no invalid value ever becomes a fact
C19_InvalidReplyDropped ==
  [][/\ (NodeStep /\ ~validates(Entry.reply))
          => /\ "extract_failed" \in Range(Entry.calls)
             /\ Entry.data = NoFacts
             /\ state'.facts = current_state.facts
     /\ validates(state'.facts)]_vars

IsPrefix(s, t) == Len(s) <= Len(t) /\ s = SubSeq(t, 1, Len(s))

\* C20: messages is append-only.  At every step the history of the session
\* is a prefix of the history after the step, so the history of before a
\* turn is a prefix of the history after it; an invocation of a section node
\* or of the Classifier that returns extends the graph's history by at most
\* one message, a bot message, and the router adds none.
C20_AppendOnly ==
  [][/\ IsPrefix(current_state.messages, current_state'.messages)
     /\ (NodeStep /\ Entry.branch # "raise")
          => /\ IsPrefix(state.messages, state'.messages)
             /\ Len(state'.messages) <= Len(state.messages) + 1
             /\ Len(state'.messages) = Len(state.messages) + 1
                  => Last(state'.messages).type = "ai"
     /\ pc = "router" => state'.messages = state.messages]_vars

\* C20 witness: a committed history of three turns whose last turn added two
\* bot messages, a status message and a question, by two invocations
C20_Witness ==
  /\ pc = "input"
  /\ turns = 3
  /\ Len(current_state.messages) >= 6
  /\ StatusLast([messages |-> SubSeq(current_state.messages, 1,
                                      Len(current_state.messages) - 1)])
  /\ QuestionLast(current_state)

\* a bot question lies in the history before the last message
QuestionBefore(messages) ==
  \E i \in 1..(Len(messages) - 1) : IsQuestion(messages[i])

Max(S) == CHOOSE x \in S : \A y \in S : x >= y

\* the last bot message before the last message of the history, if any
LastBotMessage(messages) ==
  LET ai == {i \in 1..(Len(messages) - 1) : messages[i].type = "ai"}
  IN IF ai = {} THEN <<>> ELSE <<messages[Max(ai)]>>

\* C21: when an invocation hands the user's utterance to the Intent
\* Classifier and the Extractor, the last bot question it hands over with it
\* is "None" only if no bot question precedes the utterance in the history;
\* if the last bot message before the utterance is a question (asked in the
\* previous turn, or earlier when turns in between ended in an error), that
\* question is handed over.
C21_LastBotQuestion ==
  [][(/\ NodeStep
      /\ Entry.calls # <<>>
      /\ Entry.calls[1] \in {"intent", "intent_failed"})
       => /\ Entry.last_ai_msg = None => ~QuestionBefore(state.messages)
          /\ \A m \in Range(LastBotMessage(state.messages)) :
               IsQuestion(m) => Entry.last_ai_msg = m.content]_vars

\* C21, the part that holds: after a turn that ended without error, the bot
\* message that turn ended with is what is handed over
C21_AfterCleanTurn ==
  [][(/\ NodeStep
      /\ Entry.calls # <<>>
      /\ Entry.calls[1] \in {"intent", "intent_failed"}
      /\ before_turn.messages # <<>>
      /\ Last(before_turn.messages).type = "ai")
       => Entry.last_ai_msg = Last(before_turn.messages).content]_vars

\* the form in which update_checklist stores an argument
Stored(v) == IF IsIterable(v) THEN list(v) ELSE v

\* C22: after a record_answers call, every key of the payload that is a
\* checklist key and carries a non-null value has that value as its answer,
\* also when the key had an answer before the call.
C22_RecordsOrUpdates ==
  \A i \in 1..Len(payload) :
    (payload[i][1] \in DOMAIN checklist /\ payload[i][2] # Null)
      => checklist[payload[i][1]] = Stored(payload[i][2])

\* C22, the part that holds: a call records the value of every such key that
\* had no answer, and leaves every answer that existed as it was
C22_RecordsUnanswered ==
  [][tool_calls' = tool_calls + 1
       => /\ \A i \in 1..Len(payload') :
               (/\ payload'[i][1] \in DOMAIN checklist
                /\ payload'[i][2] # Null
                /\ checklist[payload'[i][1]] = Null)
                 => checklist'[payload'[i][1]] = Stored(payload'[i][2])
          /\ \A k \in DOMAIN checklist :
               checklist[k] # Null => checklist'[k] = checklist[k]]_vars

\* the invocations of a turn that handed the utterance to the Intent
\* Classifier or to the Extractor
Consumers(turn_log) ==
  {k \in 1..Len(turn_log) :
     Range(turn_log[k].calls)
       \cap {"intent", "intent_failed", "extract", "extract_failed"} # {}}

\* C23: within one turn at most one invocation hands the user's utterance to
\* the Intent Classifier and the Extractor.  A section invoked when the last
\* message is a bot message (automatic continuation after a status message)
\* makes neither call, extracts nothing, and scans the facts as they are: it
\* asks about their first missing field or completes if there is none, and
\* leaves the facts unchanged.
C23_OneConsumer ==
  [][/\ Cardinality(Consumers(log')) <= 1
     /\ (/\ NodeStep
         /\ Entry.node # "classify"
         /\ Len(state.messages) > 0
         /\ Last(state.messages).type = "ai")
          => /\ Entry.calls \in {<<>>, <<"question">>}
             /\ Entry.data = NoFacts
             /\ Entry.reply = NoFacts
             /\ Entry.branch \in {"ask", "raise"}
                  => Entry.asked = find_missing(ToolClass(Entry.node), state.facts)
             /\ Entry.branch \in {"triage_done", "node_done"}
                  => find_missing(ToolClass(Entry.node), state.facts) = None
             /\ Entry.branch # "raise" => state'.facts = state.facts]_vars

\* C23 witness: the utterance completed a section, and the section after it
\* has asked its first question without a call on the utterance
C23_Witness ==
  /\ pc = "router"
  /\ Len(log) >= 3
  /\ Consumers(log) = {Len(log) - 1}
  /\ log[Len(log) - 1].branch = "node_done"
  /\ Last(log).calls = <<"question">>
  /\ Last(log).branch = "ask"

\* isAskable of the Conditional Field Resolver: the field is unset and, if it
\* has a dependency, its prerequisite holds the required value
isAskable(f, facts) ==
  /\ facts[f] = None
  /\ f \in Dependent => facts[Prerequisite(f)[1]] = Prerequisite(f)[2]

\* the first field of a schema, in declaration order, that is askable
NextMissing(tool_class, facts) ==
  LET askable == {i \in 1..Len(tool_class) : isAskable(tool_class[i], facts)}
  IN IF askable = {} THEN None ELSE tool_class[Min(askable)]

\* C24: an invocation that asks appends exactly one question, about the
\* first field in declaration order that is unset and askable in the merged
\* facts; an invocation completes its section only when the merged facts
\* leave no such field.
C24_FirstAskable ==
  [][(NodeStep /\ Entry.node # "classify" /\ Entry.branch # "raise")
       => /\ Entry.branch = "ask"
               => /\ Entry.asked = NextMissing(ToolClass(Entry.node), state'.facts)
                  /\ Len(state'.messages) = Len(state.messages) + 1
          /\ Entry.branch \in {"triage_done", "node_done"}
               => NextMissing(ToolClass(Entry.node), state'.facts) = None]_vars

\* C24, what the scan does: it asks about the first unset field of the
\* schema, askable or not, with one message, and completes when no field of
\* the schema is unset
C24_FirstUnset ==
  [][(NodeStep /\ Entry.node # "classify" /\ Entry.branch # "raise")
       => /\ Entry.branch = "ask"
               => /\ Entry.asked # None
                  /\ state'.facts[Entry.asked] = None
                  /\ \A i \in 1..Len(ToolClass(Entry.node)) :
                       ToolClass(Entry.node)[i] = Entry.asked
                         => \A j \in 1..(i - 1) :
                              state'.facts[ToolClass(Entry.node)[j]] # None
                  /\ Len(state'.messages) = Len(state.messages) + 1
                  /\ Last(state'.messages).type = "ai"
          /\ Entry.branch \in {"triage_done", "node_done"}
               => \A f \in Range(ToolClass(Entry.node)) : state'.facts[f] # None]_vars

\* C25: at the end of a turn without error, every field for which the
\* Extractor returned a value in that turn holds that value in the
\* conversation state, whether the invocation that extracted it went on to
\* ask a question or to complete its section.
C25_ExtractedCommitted ==
  (pc = "input" /\ log # <<>> /\ Last(log).branch # "raise")
    => \A k \in 1..Len(log) : \A f \in StateFields :
         ("extract" \in Range(log[k].calls) /\ log[k].reply[f] # None)
           => current_state.facts[f] = log[k].reply[f]

\* C25 witness: a turn has ended with the question of the section that
\* extracted facts from the utterance
C25_Witness ==
  /\ pc = "input"
  /\ log # <<>>
  /\ Last(log).branch = "ask"
  /\ "extract" \in Range(Last(log).calls)
  /\ Last(log).reply # NoFacts
  /\ current_state.facts # before_turn.facts

\* C26: a fact that is set never returns to unset, in the conversation state
\* at every step and in the graph's state at every invocation that returns;
\* hence a section without a missing field in the conversation state never
\* has one later.
C26_NeverUnset ==
  [][/\ \A f \in StateFields :
          current_state.facts[f] # None => current_state'.facts[f] # None
     /\ (NodeStep /\ Entry.branch # "raise")
          => \A f \in StateFields :
               state.facts[f] # None => state'.facts[f] # None
     /\ \A n \in NodeNames :
          find_missing(ToolClass(n), current_state.facts) = None
            => find_missing(ToolClass(n), current_state'.facts) = None]_vars

\* C26 witness: a turn has overwritten a fact that was set with another value
C26_Witness ==
  /\ pc = "input"
  /\ \E f \in StateFields :
       /\ before_turn.facts[f] # None
       /\ current_state.facts[f] # None
       /\ current_state.facts[f] # before_turn.facts[f]

TriageFacts(facts) == [f \in Range(TriageNode) |-> facts[f]]

\* C27: an invocation for a section extracts and changes only fields of the
\* section's own schema; once triage_complete is true in the conversation
\* state, the triage facts of the conversation state never change.
C27_SectionFrame ==
  [][/\ (NodeStep /\ Entry.node # "classify")
          => \A f \in StateFields \ Range(ToolClass(Entry.node)) :
               /\ Entry.data[f] = None
               /\ Entry.branch # "raise" => state'.facts[f] = state.facts[f]
     /\ current_state.triage_complete
          => /\ current_state'.triage_complete
             /\ TriageFacts(current_state'.facts)
                  = TriageFacts(current_state.facts)]_vars

\* C27 witness: a turn after triage was complete has changed facts, none of
\* them a triage fact
C27_Witness ==
  /\ pc = "input"
  /\ before_turn.triage_complete
  /\ current_state.facts # before_turn.facts
  /\ TriageFacts(current_state.facts) = TriageFacts(before_turn.facts)

\* C28: whenever a section node other than triage is to run, triage_complete
\* is true and the section is the front element of pending_nodes; so the pop
\* of a completing section removes that section and nothing else.
C28_RunsFrontOfQueue ==
  [][/\ (pc' = "node" /\ node' \notin {"triage", "classify"})
          => /\ state'.triage_complete
             /\ state'.pending_nodes # <<>>
             /\ Head(state'.pending_nodes) = node'
     /\ (NodeStep /\ Entry.branch = "node_done")
          => /\ state.pending_nodes # <<>>
             /\ Head(state.pending_nodes) = Entry.node
             /\ state'.pending_nodes = Tail(state.pending_nodes)]_vars

\* C28 witness: a section completed while another one was pending behind it
C28_Witness ==
  /\ pc = "router"
  /\ log # <<>>
  /\ Last(log).branch = "node_done"
  /\ state.pending_nodes # <<>>
  /\ Last(log).node \notin Range(state.pending_nodes)

\* C29: whenever the Classifier is to run, the triage section and every
\* section the queue rule schedules for the triage facts have no missing
\* field: every field of their schemas, which is what the scan of run_node
\* would ask about, holds a value.
C29_NothingMissingAtClassify ==
  (pc = "node" /\ node = "classify")
    => \A n \in {"triage"} \cup Range(calculate_pending_nodes(state.facts)) :
         \A f \in Range(ToolClass(n)) : state.facts[f] # None

\* C29 witness: the Classifier is to run for a device with two scheduled
\* sections
C29_Witness ==
  /\ pc = "node"
  /\ node = "classify"
  /\ Len(calculate_pending_nodes(state.facts)) >= 2
  /\ state.facts["orifice_location"] # None \/ state.facts["wound_use_type"] # None

\* C30: turn atomicity on error.  When a model call that is not recovered
\* fails (clarification explanation, Question Generator, Classifier), the
\* conversation state after the turn is the state of before the turn with
\* only the user's message appended: what the graph did earlier in the turn
\* (facts, status messages, pending_nodes, triage_complete) is discarded.
C30_TurnAtomicOnError ==
  [][(NodeStep /\ Entry.branch = "raise")
       => /\ Last(Entry.calls) \in {"explain", "question", "classify"}
          /\ pc' = "input"
          /\ current_state' =
               [before_turn EXCEPT
                  !.messages = Append(@, Last(current_state'.messages))]
          /\ Last(current_state'.messages).type = "human"
          /\ state' = current_state']_vars

\* C30 witness: a turn failed after triage had completed in it; the
\* conversation state still has triage incomplete and nothing pending
C30_Witness ==
  /\ pc = "input"
  /\ Len(log) >= 2
  /\ log[1].branch = "triage_done"
  /\ Last(log).branch = "raise"
  /\ ~current_state.triage_complete
  /\ current_state.pending_nodes = <<>>
  /\ current_state.facts = before_turn.facts

\* no node occurs twice among the invocations of a turn
DistinctNodes(turn_log) ==
  \A i, j \in 1..Len(turn_log) :
    i < j => turn_log[i].node # turn_log[j].node

\* C31: the invocations of one turn are bounded: the triage entry, at most
\* one invocation of each scheduled section and at most one classification;
\* no node is invoked twice in a turn.
C31_BoundedInvocations ==
  /\ DistinctNodes(log)
  /\ Len(log) <= 1 + Len(Scheduled(state.facts)) + 1

\* the bot messages the graph has appended in the running turn
TurnReplies ==
  SubSeq(state.messages, Len(current_state.messages) + 1, Len(state.messages))

\* C31, the part that holds: while no reply of the language model in the
\* running turn carries a status or report marker, no node has been invoked
\* twice in the turn
C31_BoundedWithoutMarkers ==
  (/\ pc \in {"node", "router"}
   /\ \A i \in 1..Len(TurnReplies) :
        TurnReplies[i].content \notin {"text_check", "text_clipboard"})
    => /\ DistinctNodes(log)
       /\ Len(log) <= 1 + Len(Scheduled(state.facts)) + 1

\* the running or finished turn began after a classification report
AfterReport == log # <<>> /\ ReportProduced(before_turn.messages)

\* the session loop is not inside graph.invoke
TurnOver == pc \in {"input", "exited"}

\* C32 as stated: a turn that began after a classification report ends with
\* a new report
C32_AlwaysNewReport ==
  (AfterReport /\ TurnOver)
    => /\ Last(log).branch = "report"
       /\ Last(current_state.messages) = AIMessage(Report)

\* C32: in a turn that began after a classification report the triage node
\* is skipped and the Classifier is called next, once: there is no Intent
\* Classifier call, no extraction and no question, the facts stay as they
\* were, nothing is pending, and the turn ends with a new report appended
\* after the user's message, unless the Classifier call fails, in which case
\* the turn ends with an error and the history before the message is kept.
C32_AfterReport ==
  AfterReport
    => /\ log[1].node = "triage" /\ log[1].branch = "skip"
       /\ log[1].calls = <<>>
       /\ Len(log) <= 2
       /\ Len(log) = 2
            => /\ log[2].node = "classify"
               /\ log[2].calls = <<"classify">>
               /\ log[2].branch \in {"report", "raise"}
       /\ state.facts = before_turn.facts
       /\ current_state.facts = before_turn.facts
       /\ state.pending_nodes = <<>> /\ state.triage_complete
       /\ TurnOver
            => /\ Len(log) = 2
               /\ IsPrefix(before_turn.messages, current_state.messages)
               /\ current_state.messages[Len(before_turn.messages) + 1].type
                    = "human"
               /\ Last(log).branch = "report"
                    => /\ Len(current_state.messages)
                            = Len(before_turn.messages) + 2
                       /\ Last(current_state.messages) = AIMessage(Report)
               /\ Last(log).branch = "raise"
                    => Len(current_state.messages)
                         = Len(before_turn.messages) + 1

\* C32 witness: a turn after a report has ended with a second report
C32_Witness ==
  /\ AfterReport /\ TurnOver
  /\ Len(log) = 2
  /\ Last(log).branch = "report"
  /\ Count(current_state.messages, {AIMessage(Report)}) = 2

\* the Intent Classifier was called in the invocation of a log entry
IntentCalled(entry) ==
  \E i \in 1..Len(entry.calls) : entry.calls[i] \in {"intent", "intent_failed"}

\* C33: the Intent Classifier is never invoked on an empty or absent
\* utterance.  A line that is empty after stripping is not appended and the
\* graph is not invoked; no user message of the history is empty; and an
\* invocation that calls the Intent Classifier has the user's message, a
\* non-empty one, as the last message of the history.
C33_NoIntentOnEmpty ==
  [][/\ (pc = "input" /\ strip(line') = "")
          => UNCHANGED <<current_state, state, pc, log, turns>>
     /\ \A i \in 1..Len(current_state'.messages) :
          current_state'.messages[i] # HumanMessage("")
     /\ (Len(log') = Len(log) + 1 /\ IntentCalled(Last(log')))
          => /\ state.messages # <<>>
             /\ Last(state.messages).type = "human"
             /\ Last(state.messages).content # ""]_vars

\* C33 witness: after a turn in which the Intent Classifier was called, an
\* empty line has been read
C33_Witness ==
  /\ pc = "input"
  /\ line = ""
  /\ turns >= 1
  /\ log # <<>>
  /\ IntentCalled(log[1])

\* C34 as stated: exit and quit both end the session, state changes
\* nothing, none of the three is appended to messages or routed, and every
\* other non-empty line is appended as a user message and routed.
C34_ReservedTokens ==
  [][pc = "input"
       => /\ lower(strip(line')) \in {"exit", "quit"}
               => (pc' = "exited" /\ UNCHANGED <<current_state, state>>)
          /\ lower(strip(line')) = "state"
               => UNCHANGED <<current_state, state, pc>>
          /\ lower(strip(line')) \notin {"exit", "quit", "state", ""}
               => /\ current_state'.messages =
                       Append(current_state.messages,
                              HumanMessage(strip(line')))
                  /\ pc' = "node" /\ node' = "triage"]_vars

\* C34, the part that holds: exit ends the session, state changes nothing,
\* neither is appended or routed, and every other non-empty line, the word
\* quit included, is appended as a user message and routed to the triage node
C34_ExitAndState ==
  [][pc = "input"
       => /\ lower(strip(line')) = "exit"
               => (pc' = "exited" /\ UNCHANGED <<current_state, state>>)
          /\ lower(strip(line')) = "state"
               => UNCHANGED <<current_state, state, pc>>
          /\ lower(strip(line')) \notin {"exit", "state", ""}
               => /\ current_state'.messages =
                       Append(current_state.messages,
                              HumanMessage(strip(line')))
                  /\ pc' = "node" /\ node' = "triage"]_vars

\* the step executes record_answers
RecordStep == tool_calls' = tool_calls + 1

\* C35: the result of record_answers agrees with the checklist the call
\* leaves.  updated_fields lists, each once, exactly the keys whose answer the
\* call changed; current_state maps every checklist key to its answer after
\* the call; is_complete is true iff no item is left without an answer; a
\* payload key that is not a checklist key, or whose value is null, is not
\* listed and changes no answer; the call adds and removes no item.
C35_ResultConsistent ==
  [][RecordStep
       => /\ Range(tool_result'.updated_fields)
               = {k \in DOMAIN checklist : checklist'[k] # checklist[k]}
          /\ Cardinality(Range(tool_result'.updated_fields))
               = Len(tool_result'.updated_fields)
          /\ DOMAIN checklist' = Range(ChecklistKeys)
          /\ tool_result'.current_state = checklist'
          /\ tool_result'.is_complete
               <=> (\A k \in Range(ChecklistKeys) : checklist'[k] # Null)
          /\ \A i \in 1..Len(payload') :
               (payload'[i][1] \notin Range(ChecklistKeys)
                  \/ payload'[i][2] = Null)
                 => /\ payload'[i][1] \notin Range(tool_result'.updated_fields)
                    /\ payload'[i][1] \in Range(ChecklistKeys)
                         => checklist'[payload'[i][1]]
                              = checklist[payload'[i][1]]]_vars

\* C35 witness: a call whose payload repeats an answered key and brings a
\* new one has listed the new key only
C35_Witness ==
  /\ tool_calls >= 2
  /\ Len(payload) = 2
  /\ Len(tool_result.updated_fields) = 1
  /\ ~tool_result.is_complete

\* C36: gather_info prints the summary only when every checklist item has
\* an answer; a line that is quit or exit after stripping and lowering makes
\* it return, changing no answer, and it returns in no other way; after it
\* has returned, printed the summary or failed nothing more happens, so no
\* summary follows a return; and an item that has an answer keeps an answer.
C36_GatherInfo ==
  [][/\ gather_pc' = "summary"
          => \A k \in Range(ChecklistKeys) : checklist'[k] # Null
     /\ (gather_pc = "loop" /\ lower(strip(gather_line')) \in {"quit", "exit"}
           /\ gather_line' # gather_line)
          => (gather_pc' = "returned" /\ checklist' = checklist)
     /\ (gather_pc' = "returned" /\ gather_pc # "returned")
          => /\ gather_pc = "loop"
             /\ lower(strip(gather_line')) \in {"quit", "exit"}
             /\ checklist' = checklist
     /\ gather_pc \in {"summary", "returned", "raised"} => UNCHANGED cl_vars
     /\ \A k \in Range(ChecklistKeys) :
          checklist[k] # Null => checklist'[k] # Null]_vars

\* C36 witness: the summary has been printed after the user's answers were
\* recorded by two or more calls
C36_Witness ==
  /\ gather_pc = "summary"
  /\ gather_line = "device answer"
  /\ tool_calls >= 2

\* the devices of the pages fetched in this call, in fetch order
RECURSIVE FetchedDevices(_)
FetchedDevices(pages) ==
  IF pages = <<>> THEN <<>>
  ELSE PageContent(Head(pages), server_pages) \o FetchedDevices(Tail(pages))

\* the devices collected so far: those loaded from the file, then those
\* of the pages fetched
Collected == scrape_log.loaded \o FetchedDevices(scrape_log.fetched)

\* the first page from start_page on that has not been fetched
FirstUnsavedPage ==
  CHOOSE p \in scrape.start_page..(MaxPages + 2) :
    /\ p \notin Range(scrape_log.fetched)
    /\ \A q \in scrape.start_page..(p - 1) : q \in Range(scrape_log.fetched)

\* C37 as stated: after an interruption the file holds the devices
\* collected so far and the page announced for resuming is the first page
\* whose devices are not in the file.
C37_InterruptResume ==
  scrape.pc = "interrupted"
    => /\ output_file = Collected
       /\ scrape.resume = FirstUnsavedPage

\* C37, the part that holds: after an interruption the file holds the
\* devices collected so far and current_page + 1 is announced.  That is the
\* first page not in the file when the interruption came after the page was
\* added and before current_page was advanced; it is one page further when
\* it came during the request or during the sleep, so that page is skipped.
C37_InterruptSaves ==
  scrape.pc = "interrupted"
    => /\ output_file = Collected
       /\ scrape.resume = scrape.current_page + 1
       /\ scrape_log.interrupted_at \in {"save", "next"}
            => scrape.resume = FirstUnsavedPage
       /\ scrape_log.interrupted_at \in {"fetch", "sleep"}
            => scrape.resume = FirstUnsavedPage + 1

\* C38: the scraper saves incrementally.  all_devices is the loaded devices
\* followed by the devices of the fetched pages in fetch order, and once a
\* page has been fetched and saved the file holds exactly that; when a
\* request fails, the file holds the devices collected so far, the failing
\* page is announced and the call ends with the exception; the pages
\* requested are start_page, start_page + 1, ... without gap or repetition;
\* no page is requested after the last page or after a page that reaches
\* end_page, and the loop ends only at such a page.
C38_IncrementalSave ==
  /\ scrape.all_devices = Collected
  /\ (\/ scrape.pc \in {"next", "sleep", "done"}
      \/ (scrape.pc = "fetch" /\ scrape_log.fetched # <<>>))
       => output_file = Collected
  /\ scrape.pc = "raised"
       => /\ output_file = Collected
          /\ scrape.resume = scrape.current_page
          /\ Last(scrape_log.requested) = scrape.current_page
          /\ scrape.current_page \notin Range(scrape_log.fetched)
  /\ \A i \in 1..Len(scrape_log.requested) :
       scrape_log.requested[i] = scrape.start_page + i - 1
  /\ \A i \in 1..(Len(scrape_log.requested) - 1) :
       /\ scrape_log.requested[i] < server_pages
       /\ scrape_log.requested[i] < scrape.end_page
  /\ scrape.pc = "done"
       => \/ Last(scrape_log.fetched) >= server_pages
          \/ Last(scrape_log.fetched) >= scrape.end_page

\* C38 witness: a resumed scrape has fetched two pages and ended
C38_Witness ==
  /\ scrape.pc = "done"
  /\ scrape_log.loaded # <<>>
  /\ Len(scrape_log.fetched) >= 2
  /\ output_file # scrape_log.loaded

\* the trimmed, lower-cased trade name of a device, "" if it has none
NameOf(device) ==
  IF device.tradeName.texts = <<>> THEN ""
  ELSE str_lower(str_strip(device.tradeName.texts[1]))

====
